---- MODULE Spec2Model ----
(***************************************************************************)
(* GraphTheoryIndices (brain_analysis_tools/graph_theory_indices.py): the  *)
(* graph-theory indices of a directed connectivity graph, held by the      *)
(* object in its binary form G, its weighted form Gw and the binary        *)
(* adjacency matrix.                                                       *)
(*                                                                         *)
(* A graph is its set of directed edges over the fixed node set Nodes (the *)
(* EEG channels); a weighted graph maps each of its edges to a weight.     *)
(* Numbers computed by the library calls are exact rationals <<n, d>> in   *)
(* lowest terms, and the two IEEE values a division by zero produces;      *)
(* floating-point rounding is not modelled.                                *)
(*                                                                         *)
(* The library calls are modelled by what they compute: networkx 2.x       *)
(* (directed clustering, shortest paths, which raise NetworkXError on a    *)
(* graph that is not strongly connected) and bct.randmio_dir, whose seeded *)
(* generator is a choice among every rewiring its loop can produce.  The   *)
(* base class ConnectivityGraph is modelled from its description: it       *)
(* keeps, at density threshold t, the t strongest pairs of its data.       *)
(*                                                                         *)
(* A method runs as one step, or as a few steps with its position in pc;   *)
(* calls, entry, figure and ret record what the running or last call did.  *)
(***************************************************************************)
EXTENDS Integers, Sequences, FiniteSets, TLC

\* The nodes, in the graph's native iteration order (ascending).
Nodes == 0 .. 3

\* The ordered pairs of distinct nodes: the positions of the adjacency
\* matrix off the diagonal.
Pairs == {p \in Nodes \X Nodes : p[1] # p[2]}

\* The edge weights (connectivity strengths) the weighted graph may carry.
\* They are perfect cubes so that the cube roots of the weighted clustering
\* coefficient stay rational.
Weights == {1, 8}

-----------------------------------------------------------------------------
(* Arithmetic *)

\* What a call produces: a returned value, or a raised exception.
Return(v) == [exc |-> "", val |-> v]
Raise(e) == [exc |-> e, val |-> <<>>]


RECURSIVE GCD(_, _)
GCD(a, b) == IF b = 0 THEN a ELSE GCD(b, a % b)

Abs(x) == IF x < 0 THEN -x ELSE x

\* The rational n/d (d > 0) in lowest terms.
Rat(n, d) ==
    LET g == GCD(Abs(n), d) IN
    IF n = 0 THEN <<0, 1>> ELSE <<n \div g, d \div g>>

\* The two IEEE specials, told from the rationals by their zero denominator.
NaN == <<0, 0>>
Inf == <<1, 0>>

Zero == <<0, 1>>
One == <<1, 1>>

RAdd(x, y) == Rat(x[1] * y[2] + y[1] * x[2], x[2] * y[2])

\* x / y as numpy's float64 division computes it for x, y >= 0: a zero
\* divisor gives nan (0/0) or inf (x/0) with a warning, never an exception.
FDiv(x, y) ==
    IF x = NaN \/ y = NaN THEN NaN
    ELSE IF y = Inf THEN (IF x = Inf THEN NaN ELSE Zero)
    ELSE IF x = Inf THEN Inf
    ELSE IF y[1] = 0 THEN (IF x[1] = 0 THEN NaN ELSE Inf)
    ELSE Rat(x[1] * y[2], x[2] * y[1])

\* sum(c) / len(c) over the values f[x], x in S.
RECURSIVE SetSum(_, _)
SetSum(f, S) ==
    IF S = {} THEN <<0, 1>>
    ELSE LET x == CHOOSE y \in S : TRUE IN RAdd(f[x], SetSum(f, S \ {x}))

\* The integer cube root of a perfect cube.
CubeRoot(x) == CHOOSE r \in 0 .. x : r * r * r = x

-----------------------------------------------------------------------------
(* Graph library: networkx *)

Preds(E, i) == {j \in Nodes : <<j, i>> \in E}
Succs(E, i) == {j \in Nodes : <<i, j>> \in E}

\* The nodes reachable from s along directed edges of E.
RECURSIVE ReachFrom(_, _)
ReachFrom(E, R) ==
    LET R2 == R \cup {j \in Nodes : \E i \in R : <<i, j>> \in E} IN
    IF R2 = R THEN R ELSE ReachFrom(E, R2)

Undirected(E) == E \cup {<<p[2], p[1]>> : p \in E}

is_strongly_connected(E) == \A s \in Nodes : ReachFrom(E, {s}) = Nodes
is_weakly_connected(E) == ReachFrom(Undirected(E), {0}) = Nodes

\* The sum of the integers f[x] over the domain of f.
RECURSIVE SumRest(_, _)
SumRest(f, S) ==
    IF S = {} THEN 0
    ELSE LET x == CHOOSE y \in S : TRUE IN f[x] + SumRest(f, S \ {x})

Sum(f) == SumRest(f, DOMAIN f)

Min(S) == CHOOSE x \in S : \A y \in S : x <= y
Max(S) == CHOOSE x \in S : \A y \in S : x >= y

\* The weighted graph as networkx holds it: its edges and their 'weight'.
EdgesOf(Gr) == DOMAIN Gr

\* The binary graph seen as a weighted one: weight=None counts every edge 1.
Unweighted(E) == [e \in E |-> 1]

\* _directed_weighted_triangles_and_degree_iter: the weighted directed
\* triangles through i.  Each triangle contributes the cube root of the
\* product of its three weights, each divided by the graph's largest weight;
\* the division by max_weight is taken out of the sum (TriangleSum / max_weight).
TriangleSum(Gr, i) ==
    LET E == EdgesOf(Gr)
        ip == Preds(E, i)
        is == Succs(E, i)
        Through(j, wji) ==
            LET jp == Preds(E, j)
                js == Succs(E, j)
            IN  Sum([k \in ip \cap jp |-> CubeRoot(wji * Gr[<<k, i>>] * Gr[<<k, j>>])])
              + Sum([k \in ip \cap js |-> CubeRoot(wji * Gr[<<k, i>>] * Gr[<<j, k>>])])
              + Sum([k \in is \cap jp |-> CubeRoot(wji * Gr[<<i, k>>] * Gr[<<k, j>>])])
              + Sum([k \in is \cap js |-> CubeRoot(wji * Gr[<<i, k>>] * Gr[<<j, k>>])])
    IN  Sum([j \in ip |-> Through(j, Gr[<<j, i>>])])
      + Sum([j \in is |-> Through(j, Gr[<<i, j>>])])

MaxWeight(Gr) == IF EdgesOf(Gr) = {} THEN 1 ELSE Max({Gr[e] : e \in EdgesOf(Gr)})

\* clustering(G, weight) of node i in a directed graph:
\* t / ((dtotal * (dtotal - 1) - 2 * dbidirectional) * 2), and 0 when t = 0.
Clustering(Gr, i) ==
    LET E == EdgesOf(Gr)
        dt == Cardinality(Preds(E, i)) + Cardinality(Succs(E, i))
        db == Cardinality(Preds(E, i) \cap Succs(E, i))
        t == TriangleSum(Gr, i)
    IN  IF t = 0 THEN <<0, 1>>
        ELSE Rat(t, MaxWeight(Gr) * (dt * (dt - 1) - 2 * db) * 2)

\* networkx average_clustering: sum(c) / len(c) over all nodes.
average_clustering(Gr) ==
    LET c == [i \in Nodes |-> Clustering(Gr, i)]
        s == SetSum(c, Nodes)
    IN  Rat(s[1], s[2] * Cardinality(Nodes))

\* Single-source shortest path lengths (BFS when every weight is 1,
\* Dijkstra otherwise): d maps the nodes reached so far to their best length;
\* one round relaxes every edge leaving a reached node.
Relax(Gr, d) ==
    LET E == EdgesOf(Gr)
        R == DOMAIN d
        R2 == R \cup {v \in Nodes : \E u \in R : <<u, v>> \in E}
    IN  [v \in R2 |->
            Min((IF v \in R THEN {d[v]} ELSE {})
                \cup {d[u] + Gr[<<u, v>>] : u \in {x \in R : <<x, v>> \in E}})]

RECURSIVE RelaxN(_, _, _)
RelaxN(Gr, d, n) == IF n = 0 THEN d ELSE RelaxN(Gr, Relax(Gr, d), n - 1)

PathLengths(Gr, s) == RelaxN(Gr, [v \in {s} |-> 0], Cardinality(Nodes) - 1)

\* networkx average_shortest_path_length: raises NetworkXError when the
\* directed graph is not strongly connected, else the sum of all shortest
\* path lengths divided by n * (n - 1).
average_shortest_path_length(Gr) ==
    LET n == Cardinality(Nodes) IN
    IF ~is_strongly_connected(EdgesOf(Gr)) THEN Raise("NetworkXError")
    ELSE Return(Rat(Sum([s \in Nodes |-> Sum(PathLengths(Gr, s))]), n * (n - 1)))

\* G.degree(), G.in_degree(), G.out_degree(): the (node, count) pairs in the
\* graph's native node order.
RECURSIVE View(_, _)
View(f, n) ==
    IF n \notin Nodes THEN <<>> ELSE <<(<<n, f[n]>>)>> \o View(f, n + 1)

in_degree(E) == View([n \in Nodes |-> Cardinality(Preds(E, n))], 0)
out_degree(E) == View([n \in Nodes |-> Cardinality(Succs(E, n))], 0)
degree(E) ==
    View([n \in Nodes |-> Cardinality(Preds(E, n)) + Cardinality(Succs(E, n))], 0)

-----------------------------------------------------------------------------
(* Python built-ins *)

Reverse(s) == [i \in 1 .. Len(s) |-> s[Len(s) + 1 - i]]

\* Stable insertion of x into the ascending (by count) sequence s: x goes
\* after every element whose count is not larger.
RECURSIVE InsertAsc(_, _)
InsertAsc(s, x) ==
    IF s = <<>> THEN <<x>>
    ELSE IF x[2] < Head(s)[2] THEN <<x>> \o s
    ELSE <<Head(s)>> \o InsertAsc(Tail(s), x)

RECURSIVE SortAsc(_)
SortAsc(s) ==
    IF s = <<>> THEN <<>>
    ELSE InsertAsc(SortAsc(SubSeq(s, 1, Len(s) - 1)), s[Len(s)])

\* A descending sort that reverses an ascending one: equal counts come out
\* in reverse node order.
sorted_then_reversed(s) == Reverse(SortAsc(s))

\* sorted(s, key=lambda x: x[1], reverse=True): list.sort reverses the
\* list, sorts it stably in ascending key order and reverses it again.
sorted_reverse(s) == Reverse(SortAsc(Reverse(s)))

-----------------------------------------------------------------------------
(* Null-model library: bct.randmio_dir *)

\* Two edges (a, b), (c, d) the rewiring may pick: all four nodes differ.
Eligible(R) ==
    {q \in R \X R : Cardinality({q[1][1], q[1][2], q[2][1], q[2][2]}) = 4}

\* The rewiring condition: neither (a, d) nor (c, b) is an edge yet.
Rewirable(R, q) ==
    /\ <<q[1][1], q[2][2]>> \notin R
    /\ <<q[2][1], q[1][2]>> \notin R

Rewire(R, q) ==
    (R \ {q[1], q[2]}) \cup {<<q[1][1], q[2][2]>>, <<q[2][1], q[1][2]>>}

\* One of the itr * k iterations, over every draw of the generator: it
\* rewires a picked pair that meets the rewiring condition, and leaves the
\* matrix alone when every attempt picked a pair that does not.
RewireStep(S) ==
    UNION {{Rewire(R, q) : q \in {x \in Eligible(R) : Rewirable(R, x)}} : R \in S}
    \cup {R \in S : \E q \in Eligible(R) : ~Rewirable(R, q)}

RECURSIVE RewireN(_, _)
RewireN(S, n) ==
    IF n = 0 THEN S
    ELSE LET S1 == RewireStep(S) IN
         IF S1 = S THEN S ELSE RewireN(S1, n - 1)

\* randmio_dir never returns when the matrix has edges but no two of them
\* on four different nodes: its loop that draws such a pair cannot end.
randmio_dir_hangs(R) == R # {} /\ Eligible(R) = {}

\* randmio_dir rewiring its argument in place.
MatrixRewiredInPlace(R, rand_adj) == rand_adj

\* randmio_dir works on R.copy(): the caller's matrix R is what it was,
\* whatever the rewired copy rand_adj came out as.
MatrixAfterRandmio(R, rand_adj) == R

\* bct.randmio_dir(R, itr, seed)[0]: the matrices a copy of R can end as
\* after itr * k iterations (k its number of edges), one per seed.
randmio_dir(R, itr) == RewireN({R}, itr * Cardinality(R))

-----------------------------------------------------------------------------
(* Bounds *)

\* The longest threshold sequence plot_global_indices is given.
MaxThresholds == 2

\* The density thresholds: the number of edges a rebuilt graph keeps (its
\* density times the number of node pairs).
Thresholds == {4, 6, 7, 12}

\* The pairs the connectivity data may mark as strong: the ring over the
\* nodes, in both directions.
Ring == {p \in Pairs : (p[2] - p[1]) % 4 \in {1, 3}}

\* The connectivity data sets the object may be built from: four strong
\* pairs of the ring, (0, 1) and (1, 2) among them, no strong pair at all,
\* or only strong pairs.
ConnData ==
    {[p \in Pairs |-> IF p \in H THEN 8 ELSE 1] :
        H \in {X \in SUBSET Ring : Cardinality(X) = 4 /\ {<<0, 1>>, <<1, 2>>} \subseteq X}
               \cup {{}, Pairs}}

\* The index names draw_local_indices is called with; "None" is the default.
IndexNames == {"degree", "in_degree", "out_degree", "None", "strength"}

-----------------------------------------------------------------------------
(* State *)

VARIABLES
    conn,         \* base: the connectivity strengths the graphs are built from
    G,            \* self.G: the binary graph (its edges)
    Gw,           \* self.Gw: the weighted graph (edge -> weight)
    binary_adjacency_matrix,  \* self.binary_adjacency_matrix (its 1 entries)
    built,        \* the threshold of the latest compute_connectivity call
    pc,           \* the position of the running call ("idle": none)
    thresholds,   \* plot_global_indices: its argument
    t_idx,        \* plot_global_indices: the position of t in thresholds
    avg_cl_coeffs,
    avg_path_lens,
    smi_i,        \* compute_SMI: the loop variable i
    randMetrics,  \* compute_SMI: the sum of each list and their length
    smi,          \* compute_SMI: C, L, Cr, Lr and SMI once computed
    calls,        \* the calls the running (or last) operation made, in order
    entry,        \* the graph state when the running (or last) operation began
    figure,       \* what the running (or last) operation drew
    ret           \* the last finished operation, its arguments and outcome

vars == <<conn, G, Gw, binary_adjacency_matrix, built, pc, thresholds,
          t_idx, avg_cl_coeffs, avg_path_lens, smi_i, randMetrics, smi, calls,
          entry, figure, ret>>

graph == <<G, Gw, binary_adjacency_matrix>>
plot_locals == <<thresholds, t_idx, avg_cl_coeffs, avg_path_lens>>
smi_locals == <<smi_i, randMetrics, smi>>

NoThresholds == <<>>
NoMetrics == [C |-> Zero, L |-> Zero, n |-> 0]
NoSMI == <<>>
NoFigure == <<>>
NoCall == [op |-> "", args |-> <<>>, out |-> Return(<<>>)]

-----------------------------------------------------------------------------
(* Base class: ConnectivityGraph *)

\* The pairs in descending strength, equal strengths in matrix order.
RECURSIVE Ranked(_, _)
Ranked(c, S) ==
    IF S = {} THEN <<>>
    ELSE LET top == CHOOSE p \in S : \A q \in S :
                        \/ c[p] > c[q]
                        \/ c[p] = c[q] /\ (p[1] < q[1] \/ (p[1] = q[1] /\ p[2] <= q[2]))
         IN  <<top>> \o Ranked(c, S \ {top})

\* The edges a rebuild at density threshold t keeps: the t strongest pairs.
Strongest(c, t) == {Ranked(c, Pairs)[i] : i \in 1 .. t}

\* compute_connectivity(freq, threshold): rebuilds G, Gw and the binary
\* adjacency matrix in place from the connectivity data.
compute_connectivity(freq, threshold) ==
    LET E == Strongest(conn, threshold) IN
    /\ G' = E
    /\ Gw' = [e \in E |-> conn[e]]
    /\ binary_adjacency_matrix' = E
    /\ built' = threshold

-----------------------------------------------------------------------------
(* GraphTheoryIndices *)

\* compute_global_indices with a handler that answers a failing path length
\* with 0.
compute_global_indices_handled(g, gw, weighted) ==
    LET Gr == IF weighted THEN gw ELSE Unweighted(g)
        avg_cl_coef == average_clustering(Gr)
        avg_path_len == average_shortest_path_length(Gr)
    IN  IF avg_path_len.exc # "" THEN Return(<<avg_cl_coef, Zero>>)
        ELSE Return(<<avg_cl_coef, avg_path_len.val>>)

\* compute_global_indices that leaves weight='weight' out of the path length.
compute_global_indices_hops(g, gw, weighted) ==
    LET Gr == IF weighted THEN gw ELSE Unweighted(g)
        avg_cl_coef == average_clustering(Gr)
        avg_path_len == average_shortest_path_length(Unweighted(EdgesOf(Gr)))
    IN  IF avg_path_len.exc # "" THEN Raise(avg_path_len.exc)
        ELSE Return(<<avg_cl_coef, avg_path_len.val>>)

\* compute_global_indices(weighted), on the graphs g (binary), gw (weighted).
compute_global_indices(g, gw, weighted) ==
    LET Gr == IF weighted THEN gw ELSE Unweighted(g)
        avg_cl_coef == average_clustering(Gr)
        avg_path_len == average_shortest_path_length(Gr)
    IN  IF avg_path_len.exc # "" THEN Raise(avg_path_len.exc)
        ELSE Return(<<avg_cl_coef, avg_path_len.val>>)

\* compute_local_indices(sort, weighted): degree() counts edges in either graph.
compute_local_indices(g, gw, sort, weighted) ==
    LET E == IF weighted THEN EdgesOf(gw) ELSE g IN
    IF sort
    THEN Return(<<sorted_reverse(degree(E)), sorted_reverse(in_degree(E)),
                  sorted_reverse(out_degree(E))>>)
    ELSE Return(<<degree(E), in_degree(E), out_degree(E)>>)

Init ==
    /\ conn \in ConnData
    /\ built \in Thresholds
    /\ G = Strongest(conn, built)
    /\ Gw = [e \in G |-> conn[e]]
    /\ binary_adjacency_matrix = G
    /\ pc = "idle"
    /\ thresholds = NoThresholds
    /\ t_idx = 0
    /\ avg_cl_coeffs = <<>>
    /\ avg_path_lens = <<>>
    /\ smi_i = 0
    /\ randMetrics = NoMetrics
    /\ smi = NoSMI
    /\ calls = <<>>
    /\ entry = graph
    /\ figure = NoFigure
    /\ ret = NoCall

\* A call begins: the previous call's traces are dropped.
Begin ==
    /\ pc = "idle"
    /\ entry' = graph

\* A call ends with outcome out.
Finish(op, args, out) ==
    /\ pc' = "idle"
    /\ ret' = [op |-> op, args |-> args, out |-> out]

ComputeGlobalIndices(weighted) ==
    /\ Begin
    /\ Finish("compute_global_indices", <<weighted>>,
              compute_global_indices(G, Gw, weighted))
    /\ calls' = <<>>
    /\ figure' = NoFigure
    /\ UNCHANGED <<conn, graph, built, plot_locals, smi_locals>>

ComputeLocalIndices(sort, weighted) ==
    /\ Begin
    /\ Finish("compute_local_indices", <<sort, weighted>>,
              compute_local_indices(G, Gw, sort, weighted))
    /\ calls' = <<>>
    /\ figure' = NoFigure
    /\ UNCHANGED <<conn, graph, built, plot_locals, smi_locals>>

\* The threshold sequences plot_global_indices is called with.
RECURSIVE SeqsUpTo(_, _)
SeqsUpTo(S, n) ==
    IF n = 0 THEN {<<>>}
    ELSE LET shorter == SeqsUpTo(S, n - 1) IN
         shorter \cup {Append(q, x) : q \in shorter, x \in S}

\* plot_global_indices(thresholds), lines 88-91: the two empty series.
PlotStart(ths) ==
    /\ Begin
    /\ pc' = "plot_for"
    /\ thresholds' = ths
    /\ t_idx' = 1
    /\ avg_cl_coeffs' = <<>>
    /\ avg_path_lens' = <<>>
    /\ calls' = <<>>
    /\ figure' = NoFigure
    /\ ret' = NoCall
    /\ UNCHANGED <<conn, graph, built, smi_locals>>

\* Lines 92-94: the next threshold t, and the rebuild of the graph at t.
PlotConnectivity ==
    /\ pc = "plot_for"
    /\ t_idx <= Len(thresholds)
    /\ compute_connectivity(10, thresholds[t_idx])
    /\ calls' = Append(calls, <<"compute_connectivity", 10, thresholds[t_idx]>>)
    /\ pc' = "plot_try"
    /\ UNCHANGED <<conn, plot_locals, smi_locals, entry, figure, ret>>

\* PlotTry without the except branch: the failure leaves the sweep.
PlotTryAbort ==
    LET out == compute_global_indices(G, Gw, FALSE) IN
    /\ pc = "plot_try"
    /\ calls' = Append(calls, <<"compute_global_indices", 0, thresholds[t_idx]>>)
    /\ IF out.exc = ""
       THEN /\ avg_cl_coeffs' = Append(avg_cl_coeffs, out.val[1])
            /\ avg_path_lens' = Append(avg_path_lens, out.val[2])
            /\ t_idx' = t_idx + 1
            /\ pc' = "plot_for"
            /\ UNCHANGED <<thresholds, ret>>
       ELSE /\ Finish("plot_global_indices", <<thresholds>>, Raise(out.exc))
            /\ thresholds' = NoThresholds
            /\ t_idx' = 0
            /\ avg_cl_coeffs' = <<>>
            /\ avg_path_lens' = <<>>
    /\ UNCHANGED <<conn, graph, built, smi_locals, entry, figure>>

\* PlotTry with an except branch that fills one series only.
PlotTryLopsided ==
    LET out == compute_global_indices(G, Gw, FALSE) IN
    /\ pc = "plot_try"
    /\ calls' = Append(calls, <<"compute_global_indices", 0, thresholds[t_idx]>>)
    /\ IF out.exc = ""
       THEN /\ avg_cl_coeffs' = Append(avg_cl_coeffs, out.val[1])
            /\ avg_path_lens' = Append(avg_path_lens, out.val[2])
       ELSE /\ avg_cl_coeffs' = Append(avg_cl_coeffs, Zero)
            /\ avg_path_lens' = avg_path_lens
    /\ t_idx' = t_idx + 1
    /\ pc' = "plot_for"
    /\ UNCHANGED <<conn, graph, built, thresholds, smi_locals, entry,
                   figure, ret>>

\* Lines 95-101: the try block and its bare except.
PlotTry ==
    LET out == compute_global_indices(G, Gw, FALSE) IN
    /\ pc = "plot_try"
    /\ calls' = Append(calls, <<"compute_global_indices", 0, thresholds[t_idx]>>)
    /\ IF out.exc = ""
       THEN /\ avg_cl_coeffs' = Append(avg_cl_coeffs, out.val[1])
            /\ avg_path_lens' = Append(avg_path_lens, out.val[2])
       ELSE /\ avg_cl_coeffs' = Append(avg_cl_coeffs, Zero)
            /\ avg_path_lens' = Append(avg_path_lens, Zero)
    /\ t_idx' = t_idx + 1
    /\ pc' = "plot_for"
    /\ UNCHANGED <<conn, graph, built, thresholds, smi_locals, entry,
                   figure, ret>>

\* Lines 102-119: the loop is over; the two series are plotted against the
\* thresholds.
PlotShow ==
    /\ pc = "plot_for"
    /\ t_idx > Len(thresholds)
    /\ figure' = <<"plot", thresholds, avg_cl_coeffs, avg_path_lens>>
    /\ pc' = "plot_shown"
    /\ UNCHANGED <<conn, graph, built, plot_locals, smi_locals, calls,
                   entry, ret>>

\* PlotReturn putting back the graph the sweep started with.
PlotReturnRestoring ==
    /\ pc = "plot_shown"
    /\ Finish("plot_global_indices", <<thresholds>>, Return(<<>>))
    /\ thresholds' = NoThresholds
    /\ t_idx' = 0
    /\ avg_cl_coeffs' = <<>>
    /\ avg_path_lens' = <<>>
    /\ G' = entry[1]
    /\ Gw' = entry[2]
    /\ binary_adjacency_matrix' = entry[3]
    /\ UNCHANGED <<conn, built, smi_locals, calls, entry, figure>>

\* plot_global_indices returns None; its locals are gone.
PlotReturn ==
    /\ pc = "plot_shown"
    /\ Finish("plot_global_indices", <<thresholds>>, Return(<<>>))
    /\ thresholds' = NoThresholds
    /\ t_idx' = 0
    /\ avg_cl_coeffs' = <<>>
    /\ avg_path_lens' = <<>>
    /\ UNCHANGED <<conn, graph, built, smi_locals, calls, entry, figure>>

\* The number of randomized reference graphs (range(10)) and the itr
\* argument of randmio_dir.
NumRandom == 10
RewireIter == 10

\* np.mean over a list held as its sum and its length.
Mean(sum, n) == IF n = 0 THEN NaN ELSE Rat(sum[1], sum[2] * n)

\* The ratio with the path lengths the wrong way round.
SMI_formula_inverted(C, Cr, L, Lr) == FDiv(FDiv(C, Cr), FDiv(Lr, L))

\* Line 142.
SMI_formula(C, Cr, L, Lr) == FDiv(FDiv(C, Cr), FDiv(L, Lr))

\* compute_SMI, lines 128-129.
SMIStart ==
    /\ Begin
    /\ pc' = "smi_for"
    /\ smi_i' = 0
    /\ randMetrics' = NoMetrics
    /\ smi' = NoSMI
    /\ calls' = <<>>
    /\ figure' = NoFigure
    /\ ret' = NoCall
    /\ UNCHANGED <<conn, graph, built, plot_locals>>

\* Line 131 when randmio_dir never returns: compute_SMI is stuck in it.
SMIHang ==
    /\ pc = "smi_for"
    /\ smi_i < NumRandom
    /\ randmio_dir_hangs(binary_adjacency_matrix)
    /\ pc' = "smi_hung"
    /\ calls' = Append(calls, <<"randmio_dir", RewireIter, smi_i>>)
    /\ UNCHANGED <<conn, graph, built, plot_locals, smi_locals, entry,
                   figure, ret>>

\* SMIRandom with the sweep's policy: a failing path length counts as 0.
SMIRandomDegrading ==
    /\ pc = "smi_for"
    /\ smi_i < NumRandom
    /\ ~randmio_dir_hangs(binary_adjacency_matrix)
    /\ \E rand_adj \in randmio_dir(binary_adjacency_matrix, RewireIter) :
         LET G_r == Unweighted(rand_adj)
             C_r == average_clustering(G_r)
             L_r == average_shortest_path_length(G_r)
         IN  /\ calls' = Append(calls, <<"randmio_dir", RewireIter, smi_i>>)
             /\ randMetrics' = [C |-> RAdd(randMetrics.C, C_r),
                                L |-> RAdd(randMetrics.L,
                                           IF L_r.exc # "" THEN Zero ELSE L_r.val),
                                n |-> randMetrics.n + 1]
             /\ smi_i' = smi_i + 1
             /\ UNCHANGED <<pc, ret>>
             /\ binary_adjacency_matrix' =
                    MatrixAfterRandmio(binary_adjacency_matrix, rand_adj)
    /\ UNCHANGED <<conn, G, Gw, built, plot_locals, smi, entry, figure>>

\* Lines 130-135: the reference graph of seed i and its two metrics.  A
\* failing path length leaves compute_SMI at once: nothing catches it.
SMIRandom ==
    /\ pc = "smi_for"
    /\ smi_i < NumRandom
    /\ ~randmio_dir_hangs(binary_adjacency_matrix)
    /\ \E rand_adj \in randmio_dir(binary_adjacency_matrix, RewireIter) :
         LET G_r == Unweighted(rand_adj)
             C_r == average_clustering(G_r)
             L_r == average_shortest_path_length(G_r)
         IN  /\ calls' = Append(calls, <<"randmio_dir", RewireIter, smi_i>>)
             /\ IF L_r.exc # ""
                THEN /\ Finish("compute_SMI", <<>>, Raise(L_r.exc))
                     /\ smi_i' = 0
                     /\ randMetrics' = NoMetrics
                ELSE /\ randMetrics' = [C |-> RAdd(randMetrics.C, C_r),
                                        L |-> RAdd(randMetrics.L, L_r.val),
                                        n |-> randMetrics.n + 1]
                     /\ smi_i' = smi_i + 1
                     /\ UNCHANGED <<pc, ret>>
             /\ binary_adjacency_matrix' =
                    MatrixAfterRandmio(binary_adjacency_matrix, rand_adj)
    /\ UNCHANGED <<conn, G, Gw, built, plot_locals, smi, entry, figure>>

\* Lines 137-142: the observed indices, the means and the index.
SMICompute ==
    LET out == compute_global_indices(G, Gw, FALSE) IN
    /\ pc = "smi_for"
    /\ smi_i = NumRandom
    /\ calls' = Append(calls, <<"compute_global_indices", 0, 0>>)
    /\ IF out.exc # ""
       THEN /\ Finish("compute_SMI", <<>>, Raise(out.exc))
            /\ smi_i' = 0
            /\ randMetrics' = NoMetrics
            /\ smi' = NoSMI
       ELSE LET C == out.val[1]
                L == out.val[2]
                Cr == Mean(randMetrics.C, randMetrics.n)
                Lr == Mean(randMetrics.L, randMetrics.n)
            IN  /\ smi' = [C |-> C, L |-> L, Cr |-> Cr, Lr |-> Lr,
                           SMI |-> SMI_formula(C, Cr, L, Lr)]
                /\ pc' = "smi_computed"
                /\ UNCHANGED <<smi_i, randMetrics, ret>>
    /\ UNCHANGED <<conn, graph, built, plot_locals, entry, figure>>

\* Lines 143-144: compute_SMI returns SMI.
SMIReturn ==
    /\ pc = "smi_computed"
    /\ Finish("compute_SMI", <<>>, Return(<<smi.SMI>>))
    /\ smi_i' = 0
    /\ randMetrics' = NoMetrics
    /\ smi' = NoSMI
    /\ UNCHANGED <<conn, graph, built, plot_locals, calls, entry, figure>>

\* draw_local_indices(index): the assertion, then the unsorted local
\* indices, the node sizes and the drawing of self.G.
NodeSizes(idx) == [k \in 1 .. Len(idx) |-> idx[k][2] * idx[k][2]]

\* draw_local_indices checking the name only after the computation.
DrawLocalIndicesLateCheck(index) ==
    /\ Begin
    /\ calls' = <<(<<"compute_local_indices", 0, 0>>)>>
    /\ IF index \notin {"degree", "in_degree", "out_degree"}
       THEN /\ Finish("draw_local_indices", <<index>>, Raise("AssertionError"))
            /\ figure' = NoFigure
       ELSE LET local == compute_local_indices(G, Gw, FALSE, FALSE).val
                idx == IF index = "degree" THEN local[1]
                       ELSE IF index = "in_degree" THEN local[2]
                       ELSE local[3]
            IN  /\ figure' = <<"graph", G, NodeSizes(idx)>>
                /\ Finish("draw_local_indices", <<index>>, Return(<<>>))
    /\ UNCHANGED <<conn, graph, built, plot_locals, smi_locals>>

DrawLocalIndices(index) ==
    /\ Begin
    /\ IF index \notin {"degree", "in_degree", "out_degree"}
       THEN /\ Finish("draw_local_indices", <<index>>, Raise("AssertionError"))
            /\ calls' = <<>>
            /\ figure' = NoFigure
       ELSE LET local == compute_local_indices(G, Gw, FALSE, FALSE).val
                idx == IF index = "degree" THEN local[1]
                       ELSE IF index = "in_degree" THEN local[2]
                       ELSE local[3]
            IN  /\ calls' = <<(<<"compute_local_indices", 0, 0>>)>>
                /\ figure' = <<"graph", G, NodeSizes(idx)>>
                /\ Finish("draw_local_indices", <<index>>, Return(<<>>))
    /\ UNCHANGED <<conn, graph, built, plot_locals, smi_locals>>

Next ==
    \/ \E weighted \in BOOLEAN : ComputeGlobalIndices(weighted)
    \/ \E sort \in BOOLEAN, weighted \in BOOLEAN : ComputeLocalIndices(sort, weighted)
    \/ \E ths \in SeqsUpTo(Thresholds, MaxThresholds) : PlotStart(ths)
    \/ PlotConnectivity
    \/ PlotTry
    \/ PlotShow
    \/ PlotReturn
    \/ SMIStart
    \/ SMIHang
    \/ SMIRandom
    \/ SMICompute
    \/ SMIReturn
    \/ \E index \in IndexNames : DrawLocalIndices(index)

Spec == Init /\ [][Next]_vars

-----------------------------------------------------------------------------
(* All graphs: the query operations on every directed graph over the nodes *)

\* The weightings: every edge 1, every edge 8, the ring 8 and the rest 1.
AnyWeights ==
    {[p \in Pairs |-> 1], [p \in Pairs |-> 8],
     [p \in Pairs |-> IF p \in Ring THEN 8 ELSE 1]}

InitGraphs ==
    /\ conn \in AnyWeights
    /\ G \in SUBSET Pairs
    /\ Gw = [e \in G |-> conn[e]]
    /\ binary_adjacency_matrix = G
    /\ built = 0
    /\ pc = "idle"
    /\ thresholds = NoThresholds
    /\ t_idx = 0
    /\ avg_cl_coeffs = <<>>
    /\ avg_path_lens = <<>>
    /\ smi_i = 0
    /\ randMetrics = NoMetrics
    /\ smi = NoSMI
    /\ calls = <<>>
    /\ entry = graph
    /\ figure = NoFigure
    /\ ret = NoCall

NextQueries ==
    \/ \E weighted \in BOOLEAN : ComputeGlobalIndices(weighted)
    \/ \E sort \in BOOLEAN, weighted \in BOOLEAN : ComputeLocalIndices(sort, weighted)

SpecGraphs == InitGraphs /\ [][NextQueries]_vars

-----------------------------------------------------------------------------
(* Properties *)

\* What the base builds at threshold t, and the global indices of it.
GraphAt(t) == Strongest(conn, t)
WeightedAt(t) == [e \in GraphAt(t) |-> conn[e]]
GlobalAt(t) == compute_global_indices(GraphAt(t), WeightedAt(t), FALSE)

InSweep == pc \in {"plot_for", "plot_try", "plot_shown"}

\* C1: in plot_global_indices a threshold whose global-index computation
\* fails gets 0 in both series, and the sweep goes on: once the loop is over
\* both series cover every threshold, and the call ends by returning
\* normally with all of them plotted, never with the failure.
C1_DegradeAndContinue ==
    /\ InSweep =>
         \A k \in 1 .. Len(avg_cl_coeffs) :
            GlobalAt(thresholds[k]).exc # "" =>
                avg_cl_coeffs[k] = Zero /\ avg_path_lens[k] = Zero
    /\ pc = "plot_try" => Len(avg_cl_coeffs) = t_idx - 1
    /\ pc = "plot_shown" =>
         Len(avg_cl_coeffs) = Len(thresholds) /\ Len(avg_path_lens) = Len(thresholds)
    /\ ret.op = "plot_global_indices" =>
         /\ ret.out = Return(<<>>)
         /\ figure[2] = ret.args[1]
         /\ Len(figure[3]) = Len(ret.args[1])
         /\ Len(figure[4]) = Len(ret.args[1])

\* C1 happens: a sweep is over whose first threshold failed and got (0, 0)
\* and whose second threshold was computed.
C1_Witness ==
    /\ pc = "plot_shown"
    /\ Len(thresholds) = 2
    /\ GlobalAt(thresholds[1]).exc # ""
    /\ avg_cl_coeffs[1] = Zero /\ avg_path_lens[1] = Zero
    /\ GlobalAt(thresholds[2]).exc = ""
    /\ avg_path_lens[2] # Zero

\* The calls a sweep has made once it is done with the first n thresholds.
RECURSIVE SweepCalls(_, _)
SweepCalls(ths, n) ==
    IF n = 0 THEN <<>>
    ELSE SweepCalls(ths, n - 1)
         \o <<(<<"compute_connectivity", 10, ths[n]>>),
              (<<"compute_global_indices", 0, ths[n]>>)>>

\* C2: plot_global_indices takes the thresholds in order; for each t it
\* calls compute_connectivity(freq=10, threshold=t) once and then the
\* global-index computation, on the graph built at t; the two series always
\* have the same length, their k-th entries are those of the k-th threshold,
\* and when the loop is over they have one entry per threshold.
C2_OrderedSweep ==
    InSweep =>
        /\ Len(avg_cl_coeffs) = Len(avg_path_lens)
        /\ Len(avg_cl_coeffs) = t_idx - 1
        /\ pc = "plot_shown" => Len(avg_cl_coeffs) = Len(thresholds)
        /\ calls = SweepCalls(thresholds, t_idx - 1)
                   \o (IF pc = "plot_try"
                       THEN <<(<<"compute_connectivity", 10, thresholds[t_idx]>>)>>
                       ELSE <<>>)
        /\ pc = "plot_try" =>
             /\ G = GraphAt(thresholds[t_idx])
             /\ Gw = WeightedAt(thresholds[t_idx])
        /\ \A k \in 1 .. Len(avg_cl_coeffs) :
             LET at_k == GlobalAt(thresholds[k]) IN
             <<avg_cl_coeffs[k], avg_path_lens[k]>> =
                IF at_k.exc # "" THEN <<Zero, Zero>> ELSE at_k.val

\* C2 happens: a sweep over two different thresholds is over, one of them
\* failing, with different entries for the two.
C2_Witness ==
    /\ pc = "plot_shown"
    /\ Len(thresholds) = 2
    /\ thresholds[1] > thresholds[2]
    /\ Len(calls) = 4
    /\ GlobalAt(thresholds[2]).exc # ""
    /\ avg_cl_coeffs[1] # avg_cl_coeffs[2]

\* C3: compute_global_indices on a disconnected graph raises and returns
\* no value, in the weighted and in the unweighted mode alike.
C3_DisconnectedRaises ==
    (ret.op = "compute_global_indices" /\ ~is_weakly_connected(G)) =>
        ret.out = Raise("NetworkXError")

\* C3 happens: the weighted mode was called on a disconnected graph that has
\* edges, and raised.
C3_Witness ==
    /\ ret.op = "compute_global_indices"
    /\ ret.args[1] = TRUE
    /\ ~is_weakly_connected(G)
    /\ Cardinality(G) >= 4
    /\ ret.out.exc = "NetworkXError"

Complete == G = Pairs
UniformWeights == \A e \in DOMAIN Gw, f \in DOMAIN Gw : Gw[e] = Gw[f]

\* C4 as stated: on a complete graph with uniform weights
\* compute_global_indices returns (1.0, 1.0) in both modes.
C4_Original ==
    (ret.op = "compute_global_indices" /\ Complete /\ UniformWeights) =>
        ret.out = Return(<<One, One>>)

\* C4, amended: on a complete graph whose edges all weigh w the unweighted
\* mode returns (1.0, 1.0) and the weighted mode returns clustering 1.0 and
\* average path length w: (1.0, 1.0) only for w = 1.
C4_CompleteGraph ==
    (ret.op = "compute_global_indices" /\ Complete /\ UniformWeights) =>
        ret.out = Return(<<One, IF ret.args[1] THEN <<Gw[<<0, 1>>], 1>> ELSE One>>)

\* C4 happens: the weighted mode on a complete graph with uniform weights.
C4_Witness ==
    /\ ret.op = "compute_global_indices"
    /\ ret.args[1] = TRUE
    /\ Complete /\ UniformWeights
    /\ ret.out.exc = ""
    /\ ret.out.val[1] = One

\* The counts of node n that the three sequences report.
CountOf(m, n) ==
    LET ins == Cardinality({e \in G : e[2] = n})
        outs == Cardinality({e \in G : e[1] = n})
    IN  IF m = 1 THEN ins + outs ELSE IF m = 2 THEN ins ELSE outs

\* C5: compute_local_indices(sort=False) returns each of degree, in-degree
\* and out-degree in native node order; sort=True returns it by count
\* descending, equal counts in native node order; either way the sequence
\* holds exactly the (node, count) pairs of the graph, each once.
C5_LocalIndicesOrder ==
    ret.op = "compute_local_indices" =>
        /\ ret.out.exc = ""
        /\ \A m \in 1 .. 3 :
             LET s == ret.out.val[m] IN
             /\ Len(s) = Cardinality(Nodes)
             /\ {s[k] : k \in 1 .. Len(s)} = {<<n, CountOf(m, n)>> : n \in Nodes}
             /\ ret.args[1] =>
                  \A a \in 1 .. Len(s), b \in 1 .. Len(s) :
                     a < b => \/ s[a][2] > s[b][2]
                              \/ s[a][2] = s[b][2] /\ s[a][1] < s[b][1]
             /\ ~ret.args[1] =>
                  \A a \in 1 .. Len(s), b \in 1 .. Len(s) : a < b => s[a][1] < s[b][1]

\* C5 happens: a sorted result with two nodes of equal degree and one whose
\* larger degree moved it ahead of a node that precedes it natively.
C5_Witness ==
    /\ ret.op = "compute_local_indices"
    /\ ret.args[1] = TRUE
    /\ \E a \in 1 .. 3 :
         /\ ret.out.val[1][a][2] = ret.out.val[1][a + 1][2]
    /\ \E a \in 1 .. 3 :
         /\ ret.out.val[1][a][2] > ret.out.val[1][a + 1][2]
         /\ ret.out.val[1][a][1] > ret.out.val[1][a + 1][1]

\* x <= y for two rationals.
RLeq(x, y) == x[1] * y[2] <= y[1] * x[2]

\* The reference graphs compute_SMI can get for the current matrix, and the
\* strongly connected ones among them.
References == randmio_dir(binary_adjacency_matrix, 10)
ConnectedReferences == {R \in References : is_strongly_connected(R)}

\* The calls compute_SMI has made once it is done with its first n seeds.
RECURSIVE ReferenceCalls(_)
ReferenceCalls(n) ==
    IF n = 0 THEN <<>> ELSE Append(ReferenceCalls(n - 1), <<"randmio_dir", 10, n - 1>>)

\* What C6 says of the index apart from the case Cr = C, Lr = L: C and L are
\* the observed unweighted indices; Cr and Lr are the means over exactly 10
\* reference graphs, got by randmio_dir on the binary adjacency matrix with
\* itr = 10 and the seeds 0..9 in this order; SMI is (C/Cr) / (L/Lr).
SMIAsSpecified ==
    /\ <<smi.C, smi.L>> = compute_global_indices(G, Gw, FALSE).val
    /\ randMetrics.n = 10
    /\ calls = Append(ReferenceCalls(10), <<"compute_global_indices", 0, 0>>)
    /\ smi.Cr = Rat(randMetrics.C[1], randMetrics.C[2] * 10)
    /\ smi.Lr = Rat(randMetrics.L[1], randMetrics.L[2] * 10)
    /\ \E lo \in ConnectedReferences, hi \in ConnectedReferences :
         /\ RLeq(average_clustering(Unweighted(lo)), smi.Cr)
         /\ RLeq(smi.Cr, average_clustering(Unweighted(hi)))
    /\ \E lo \in ConnectedReferences, hi \in ConnectedReferences :
         /\ RLeq(average_shortest_path_length(Unweighted(lo)).val, smi.Lr)
         /\ RLeq(smi.Lr, average_shortest_path_length(Unweighted(hi)).val)
    /\ smi.SMI = FDiv(FDiv(smi.C, smi.Cr), FDiv(smi.L, smi.Lr))

\* C6 as stated: the index is as specified, and it is exactly 1.0 whenever
\* Cr = C and Lr = L.
C6_Original ==
    pc = "smi_computed" =>
        /\ SMIAsSpecified
        /\ (smi.Cr = smi.C /\ smi.Lr = smi.L) => smi.SMI = One

\* C6, amended: the index is as specified, and whenever Cr = C and Lr = L it
\* is exactly 1.0 if C is not zero, and nan (0/0) if C is zero.
C6_SmallWorldIndex ==
    pc = "smi_computed" =>
        /\ SMIAsSpecified
        /\ (smi.Cr = smi.C /\ smi.Lr = smi.L) =>
              smi.SMI = IF smi.C = Zero THEN NaN ELSE One

\* C6 happens: an index of exactly 1.0 from Cr = C # 0 and Lr = L.
C6_Witness ==
    /\ pc = "smi_computed"
    /\ smi.Cr = smi.C /\ smi.Lr = smi.L
    /\ smi.C # Zero
    /\ smi.SMI = One

\* C7: draw_local_indices with an index outside "degree", "in_degree",
\* "out_degree" (the default None too) fails on its assertion before
\* anything else: no compute_local_indices call, nothing drawn.
C7_InvalidIndexRejected ==
    (ret.op = "draw_local_indices"
        /\ ret.args[1] \notin {"degree", "in_degree", "out_degree"}) =>
            /\ ret.out = Raise("AssertionError")
            /\ calls = <<>>
            /\ figure = NoFigure

\* C7 happens: the default index was rejected.
C7_Witness ==
    /\ ret.op = "draw_local_indices"
    /\ ret.args[1] = "None"
    /\ ret.out.exc = "AssertionError"

\* C8: in compute_SMI every pass of the loop either adds the metrics of a
\* strongly connected reference graph to the lists or ends the call with the
\* path-length error, nothing caught and no 0 put in its place; a failing
\* observed graph ends the call with the error too; so a call that returned
\* a value met no failure.
C8_FailurePropagates ==
    /\ [][(pc = "smi_for" /\ smi_i < 10 /\ pc' # "smi_hung") =>
            \/ /\ pc' = "idle"
               /\ ret' = [op |-> "compute_SMI", args |-> <<>>,
                          out |-> Raise("NetworkXError")]
               /\ References # ConnectedReferences
            \/ /\ pc' = "smi_for"
               /\ smi_i' = smi_i + 1
               /\ \E R \in ConnectedReferences :
                    /\ randMetrics'.C =
                         RAdd(randMetrics.C, average_clustering(Unweighted(R)))
                    /\ randMetrics'.L =
                         RAdd(randMetrics.L,
                              average_shortest_path_length(Unweighted(R)).val)
                    /\ randMetrics'.n = randMetrics.n + 1]_vars
    /\ [][(pc = "smi_for" /\ smi_i = 10 /\ ~is_strongly_connected(G)) =>
            /\ pc' = "idle"
            /\ ret' = [op |-> "compute_SMI", args |-> <<>>,
                       out |-> Raise("NetworkXError")]]_vars
    /\ [](ret.op = "compute_SMI" /\ ret.out.exc = "" =>
            is_strongly_connected(G) /\ ConnectedReferences # {})

\* C8 happens: compute_SMI raised on a reference graph although the observed
\* graph is strongly connected.
C8_Witness ==
    /\ ret.op = "compute_SMI"
    /\ ret.out = Raise("NetworkXError")
    /\ is_strongly_connected(G)

Queries ==
    {"compute_global_indices", "compute_local_indices", "compute_SMI",
     "draw_local_indices"}

\* C9: G, Gw and the binary adjacency matrix change only in the step of
\* plot_global_indices that calls compute_connectivity; after
\* compute_global_indices, compute_local_indices, compute_SMI or
\* draw_local_indices, returned or raised, they are what they were when the
\* call began.
C9_ReadOnly ==
    /\ [][graph' # graph =>
            /\ pc = "plot_for" /\ pc' = "plot_try"
            /\ calls' = Append(calls, <<"compute_connectivity", 10, thresholds[t_idx]>>)]_vars
    /\ [](ret.op \in Queries => graph = entry)

\* C9 happens: compute_SMI returned although a reference graph can differ
\* from the matrix.
C9_Witness ==
    /\ ret.op = "compute_SMI"
    /\ ret.out.exc = ""
    /\ graph = entry
    /\ References # {binary_adjacency_matrix}

Last(q) == q[Len(q)]

\* C10: after plot_global_indices returns for a non-empty threshold sequence
\* the graph is the one compute_connectivity(10, last threshold) builds, not
\* restored; for an empty sequence it is unchanged; the threshold the graph
\* was built with changes in no other way, and every later query reports on
\* the graph built with it.
C10_SweepLeavesLastGraph ==
    /\ [](ret.op = "plot_global_indices" =>
            IF ret.args[1] = <<>> THEN graph = entry
            ELSE /\ built = Last(ret.args[1])
                 /\ G = GraphAt(built)
                 /\ Gw = WeightedAt(built)
                 /\ binary_adjacency_matrix = GraphAt(built))
    /\ [][built' # built =>
            pc = "plot_for" /\ built' = thresholds[t_idx]]_vars
    /\ [](ret.op = "compute_global_indices" =>
            ret.out = compute_global_indices(GraphAt(built), WeightedAt(built),
                                             ret.args[1]))
    /\ [](ret.op = "compute_local_indices" =>
            ret.out = compute_local_indices(GraphAt(built), WeightedAt(built),
                                            ret.args[1], ret.args[2]))
    /\ [](pc = "smi_computed" => <<smi.C, smi.L>> = GlobalAt(built).val)
    /\ [](ret.op = "draw_local_indices" /\ ret.out.exc = "" =>
            figure[2] = GraphAt(built))

\* C10 happens: a sweep returned and left a graph other than the one it
\* started with.
C10_Witness ==
    /\ ret.op = "plot_global_indices"
    /\ ret.args[1] # <<>>
    /\ G # entry[1]
    /\ G = GraphAt(Last(ret.args[1]))

====
